---- MODULE Spec2Model ----
(***************************************************************************)
(* The tutor-chat page (ChatPage) as a state machine.                      *)
(*                                                                         *)
(* The page is a React component: its state is the set of useState cells,  *)
(* every UI event handler and every network-completion callback runs to    *)
(* completion on the single UI thread, and an async function keeps the     *)
(* values of the render in which it was called (its closure) across its    *)
(* awaits.  A request in flight is therefore a record holding the closure  *)
(* of the call that issued it.                                             *)
(*                                                                         *)
(* Strings the code inspects character by character (the question, the     *)
(* answer text) are sequences of one-character strings; strings the code   *)
(* only compares or tests for emptiness are TLA+ strings.  A nullable      *)
(* value is a sequence of length 0 (null / absent) or 1.                   *)
(***************************************************************************)
EXTENDS Integers, Sequences, FiniteSets, TLC

(***************************************************************************)
(* Bounds of the model.                                                    *)
(***************************************************************************)
\* ask requests issued in one behaviour
MaxAsks == 2
\* course-list requests issued in one behaviour (the mount request included)
MaxLoads == 2
\* create-course requests issued in one behaviour
MaxCreates == 2
\* upload requests issued in one behaviour
MaxUploads == 1
\* pieces a text under the sanitizer is made of
MaxTokens == 4

(***************************************************************************)
(* Nullable values.                                                        *)
(***************************************************************************)
None == <<>>
Some(x) == <<x>>

\* JavaScript's  a || b  on nullable values whose non-null values are truthy
OrElse(a, b) == IF a # None THEN a ELSE b

(***************************************************************************)
(* Text utilities.                                                         *)
(***************************************************************************)
WhiteSpace == {" "}

RECURSIVE TrimStart(_)
TrimStart(s) ==
    IF s # <<>> /\ Head(s) \in WhiteSpace THEN TrimStart(Tail(s)) ELSE s

RECURSIVE TrimEnd(_)
TrimEnd(s) ==
    IF s # <<>> /\ s[Len(s)] \in WhiteSpace
    THEN TrimEnd(SubSeq(s, 1, Len(s) - 1))
    ELSE s

\* String.prototype.trim
Trim(s) == TrimEnd(TrimStart(s))

\* does the two-character pattern <<a, b>> occur in s
Occurs2(s, a, b) == \E i \in 1..(Len(s) - 1) : s[i] = a /\ s[i + 1] = b

\* a replace without the g flag: the first match only
RECURSIVE ReplaceFirst2(_, _, _, _)
ReplaceFirst2(s, a, b, rep) ==
    IF Len(s) < 2 THEN s
    ELSE IF s[1] = a /\ s[2] = b
         THEN rep \o SubSeq(s, 3, Len(s))
         ELSE <<s[1]>> \o ReplaceFirst2(Tail(s), a, b, rep)

\* s.replace(/ab/g, rep) for a two-character literal pattern: leftmost
\* matches, not overlapping, the scan resuming after each match
RECURSIVE ReplaceAll2(_, _, _, _)
ReplaceAll2(s, a, b, rep) ==
    IF Len(s) < 2 THEN s
    ELSE IF s[1] = a /\ s[2] = b
         THEN rep \o ReplaceAll2(SubSeq(s, 3, Len(s)), a, b, rep)
         ELSE <<s[1]>> \o ReplaceAll2(Tail(s), a, b, rep)

\* What String.prototype.replace inserts for a replacement string: in a
\* replacement string "$$" stands for one "$"; a lone trailing "$" is
\* literal.
RECURSIVE Expand(_)
Expand(rep) ==
    IF Len(rep) >= 2 /\ rep[1] = "$" /\ rep[2] = "$"
    THEN <<"$">> \o Expand(SubSeq(rep, 3, Len(rep)))
    ELSE IF rep = <<>> THEN <<>>
    ELSE <<rep[1]>> \o Expand(Tail(rep))

BS == "\\"

\* the value undefined, which is no sequence of characters
Undefined == <<"undefined">>

\* a test that takes only the empty string for falsy
FalsyEmptyOnly(s) == s = <<>>

\* !s for s a string or undefined
Falsy(s) == s = <<>> \/ s = Undefined

HasLegacyDelimiter(s) ==
    \/ Occurs2(s, BS, "[")
    \/ Occurs2(s, BS, "]")
    \/ Occurs2(s, BS, "(")
    \/ Occurs2(s, BS, ")")

normalizeMath(s) ==
    IF Falsy(s) THEN s
    ELSE IF ~HasLegacyDelimiter(s) THEN s
    ELSE LET s1 == ReplaceAll2(s, BS, "[", Expand(<<"$", "$">>))
             s2 == ReplaceAll2(s1, BS, "]", Expand(<<"$", "$">>))
             s3 == ReplaceAll2(s2, BS, "(", Expand(<<"$">>))
         IN  ReplaceAll2(s3, BS, ")", Expand(<<"$">>))

Digits == {"0", "1", "2", "3", "4", "5", "6", "7", "8", "9"}

\* index of the first element of s at or after i that is in set S, 0 if none
RECURSIVE FirstIn(_, _, _)
FirstIn(s, i, S) ==
    IF i > Len(s) THEN 0
    ELSE IF s[i] \in S THEN i
    ELSE FirstIn(s, i + 1, S)

\* index of the first element of s at or after i that is not in S,
\* Len(s) + 1 if none
RECURSIVE FirstNotIn(_, _, _)
FirstNotIn(s, i, S) ==
    IF i > Len(s) THEN Len(s) + 1
    ELSE IF s[i] \notin S THEN i
    ELSE FirstNotIn(s, i + 1, S)

\* /\[([0-9]+)\]\([^)]+\)/ anchored at the head of s: the index of the last
\* matched character, 0 when there is no match at the head
CitationEnd(s) ==
    IF Len(s) < 6 \/ s[1] # "[" THEN 0
    ELSE LET d == FirstNotIn(s, 2, Digits)      \* first non-digit after "["
         IN  IF d = 2 \/ d + 2 > Len(s) THEN 0
             ELSE IF s[d] # "]" \/ s[d + 1] # "(" \/ s[d + 2] = ")" THEN 0
             ELSE FirstIn(s, d + 3, {")"})

\* block.replace(/\[([0-9]+)\]\([^)]+\)/g, '[$1]')
RECURSIVE StripCitationLinks(_)
StripCitationLinks(s) ==
    IF s = <<>> THEN s
    ELSE LET e == CitationEnd(s)
         IN  IF e = 0
             THEN <<s[1]>> \o StripCitationLinks(Tail(s))
             ELSE SubSeq(s, 1, FirstNotIn(s, 2, Digits))
                    \o StripCitationLinks(SubSeq(s, e + 1, Len(s)))

TextOpen == <<BS, "t", "e", "x", "t", "{">>

\* a span that runs to the last closing brace of s
TextBlockEndGreedy(s) ==
    IF Len(s) < 7 \/ SubSeq(s, 1, 6) # TextOpen THEN 0
    ELSE IF \A i \in 7..Len(s) : s[i] # "}" THEN 0
    ELSE CHOOSE i \in 7..Len(s) :
           s[i] = "}" /\ \A k \in (i + 1)..Len(s) : s[k] # "}"

\* /\\text\{[^}]*\}/ anchored at the head of s: the index of the closing
\* brace, 0 when there is no match at the head
TextBlockEnd(s) ==
    IF Len(s) < 7 \/ SubSeq(s, 1, 6) # TextOpen THEN 0
    ELSE FirstIn(s, 7, {"}"})

\* links rewritten wherever they are
StripEverywhere(s) == StripCitationLinks(s)

\* s.replace(/\\text\{[^}]*\}/g, (block) => block.replace(...)): leftmost
\* matches, not overlapping, the scan resuming after each match
RECURSIVE ReplaceTextBlocks(_)
ReplaceTextBlocks(s) ==
    IF s = <<>> THEN s
    ELSE LET e == TextBlockEnd(s)
         IN  IF e = 0
             THEN <<s[1]>> \o ReplaceTextBlocks(Tail(s))
             ELSE StripCitationLinks(SubSeq(s, 1, e))
                    \o ReplaceTextBlocks(SubSeq(s, e + 1, Len(s)))

\* (s || '').replace(...)
sanitizeInlineCitations(s) ==
    ReplaceTextBlocks(IF Falsy(s) THEN <<>> ELSE s)

USE_MATH_NORMALIZER == TRUE

\* the answer text as ask() stores it
CleanAnswer(raw) ==
    sanitizeInlineCitations(IF USE_MATH_NORMALIZER THEN normalizeMath(raw) ELSE raw)

\* the pieces answer texts are made of here: the markers and brackets the
\* two functions look for, whole and in parts
Tokens ==
    { TextOpen, <<"}">>, <<"[", "3", "]", "(", "u", ")">>, <<"(", "u", ")">>,
      <<BS, "[">>, <<BS, "]">>, <<BS, "(">>, <<BS, ")">>, <<BS>> }

\* the concatenation of a sequence of texts
RECURSIVE Flatten(_)
Flatten(ts) == IF ts = <<>> THEN <<>> ELSE ts[1] \o Flatten(Tail(ts))

\* the answer texts of at most MaxTokens pieces
Texts == UNION {{Flatten(ts) : ts \in [1..n -> Tokens]} : n \in 0..MaxTokens}

(***************************************************************************)
(* Data the backend can return.                                            *)
(***************************************************************************)
\* process.env.NEXT_PUBLIC_DEMO_USER_ID || '2222...': never the empty string
DEFAULT_USER_ID == "u1"

\* process.env.NEXT_PUBLIC_PDES_COURSE_ID || '': the empty string when unset
DefaultCourseIds == {"", "c1"}

\* what can be typed into the user id input
UserIdInputs == {"", "u1", "u2"}

\* what can be pasted into the course id input
PasteIds == {"c1", "c3"}

\* type Course = { id, name, term? }
AllCourses ==
    { [id |-> "c1", name |-> "Algo", term |-> Some("Fall")],
      [id |-> "c2", name |-> "Logic", term |-> None],
      [id |-> "c3", name |-> "Nets", term |-> Some("")] }

\* the backend scopes every course to one identity
OwnerOf(id) == IF id \in {"c1", "c2", "c4"} THEN "u1" ELSE "u2"

\* the bodies GET /courses can return for identity u: the courses u owns,
\* in any order the backend chooses, none twice
CourseLists(u) ==
    LET own == {c \in AllCourses : OwnerOf(c.id) = u}
    IN  {<<>>} \cup {<<c>> : c \in own}
          \cup {<<c, d>> : <<c, d>> \in {p \in own \X own : p[1] # p[2]}}

HasId(rows, id) == \E i \in 1..Len(rows) : rows[i].id = id

\* the size ceiling of onUpload for a PDF, in bytes
MaxPdfBytes == 100 * 1024 * 1024

\* the files the file input can hand to onPick: a name, the declared type
\* and the size in bytes
NotesTxt == <<"n", "o", "t", "e", "s", ".", "t", "x", "t">>
FileNames == {NotesTxt, <<"A", ".", "P", "D", "F">>, <<"s", "c", "a", "n">>}
FileTypes == {"application/pdf", "text/plain"}
FileSizes == {MaxPdfBytes, MaxPdfBytes + 1}
Files == [name : FileNames, type : FileTypes, size : FileSizes]

\* what getSession() and a session-changed notification can carry: no
\* session, or the session of a signed-in user (its user id)
Sessions == {None, Some("u1"), Some("u2")}

\* what can be typed into the name and term inputs of the create form
NewNames == {<<>>, <<" ">>, <<" ", "A", " ">>}
NewTerms == {"", "Fall"}

\* the characters of s as one string
RECURSIVE Str(_)
Str(s) == IF s = <<>> THEN "" ELSE s[1] \o Str(Tail(s))

\* the id the backend gives a course that identity u creates
NewId(u) == IF u = "u1" THEN "c4" ELSE "c5"

\* the bodies POST /courses can return on success for the request r: the
\* course just created, or a course the identity already has
CreatedRows(r) ==
    {[id |-> NewId(r.userId), name |-> Str(r.name), term |-> Some(r.term)]}
      \cup {c \in AllCourses : OwnerOf(c.id) = r.userId}

\* type Source = { marker, ... }
Src1 == [marker |-> "[1]"]
Src2 == [marker |-> "[2]"]

Meta1 == [confidence |-> "high"]

\* the bodies POST /chat/ask can return on success; a field that is absent
\* or null is None
AskPayloads ==
    { [answer |-> Some(<<"o", "k">>), sources_dedup |-> Some(<<Src1>>),
       sources |-> Some(<<Src1, Src1>>), meta |-> Some(Meta1)],
      [answer |-> Some(<<BS, "(", "x", BS, ")">>), sources_dedup |-> None,
       sources |-> Some(<<Src2>>), meta |-> None],
      [answer |-> None, sources_dedup |-> None, sources |-> None,
       meta |-> None] }

\* non-success outcomes of a request: the status and the body text
FailStatuses == {403, 500}
FailBodies == {"", "boom"}

\* the message of an error thrown by fetch or by res.json()
ThrowMessages == {"", "Failed to fetch"}

\* what can be typed into the question input: nothing, white space only,
\* text
Questions == {<<>>, <<" ">>, <<"x">>}

(***************************************************************************)
(* State.                                                                  *)
(***************************************************************************)
VARIABLES
    q, courseId, answer, sources, meta, loading, err,   \* chat state
    userId, lockedByAuth, courses, loadingCourses,      \* sidebar state
    askInFlight,      \* POST /chat/ask requests awaiting their response;
                      \* ask() reads nothing of its closure after the
                      \* await, so a request is its order of issue
    coursesInFlight,  \* GET /courses requests awaiting their response
    nAsk, nLoad,      \* requests issued so far
    lastAsk,          \* history: how the latest call of ask() ended
    lastLoad,         \* history: how the latest completed course-list
                      \* request ended
    dataFrom,         \* history: the ask whose response wrote answer/sources/meta
    errFrom,          \* history: the ask whose failure wrote err
    selFrom,          \* history: the identity whose list gave courseId
    courseLabel,      \* the label of the selected course
    labelInFlight,    \* runs of the label effect awaiting GET /courses/{id}:
                      \* the closure of the run and its cancelled flag
    labelFor,         \* history: the course id courseLabel was written for
    labelVia,         \* history: the branch that wrote courseLabel
    lastLabel,        \* history: what the latest details response did
    newName, newTerm, creating,                   \* create-course form
    createInFlight,   \* POST /courses requests awaiting their response
    nCreate,          \* POST /courses requests issued so far
    lastCreate,       \* history: how the latest call of createCourse() went
    sessionLookup,    \* the getSession() promise of the session effect
    lastAuth,         \* history: the latest session information processed
    open, kind, file, uploading, uploadMsg, uploadErr,    \* NotesUploader
    uploadInFlight,   \* POST /upload/... requests awaiting their response
    nUpload,          \* upload requests issued so far
    text, withMath, cleaned, textPc             \* a text under the sanitizer

chatVars == <<q, answer, sources, meta, loading, err>>
sidebarVars == <<userId, lockedByAuth, courses, loadingCourses>>
netVars == <<askInFlight, coursesInFlight, nAsk, nLoad>>
histVars == <<lastAsk, lastLoad, dataFrom, errFrom, selFrom>>
labelVars == <<courseLabel, labelInFlight, labelFor, labelVia, lastLabel>>
createVars == <<newName, newTerm, creating, createInFlight, nCreate, lastCreate>>
authVars == <<sessionLookup, lastAuth>>
uploadVars == <<open, kind, file, uploading, uploadMsg, uploadErr,
                uploadInFlight, nUpload>>
textVars == <<text, withMath, cleaned, textPc>>
\* what the handlers of the page proper never write
asideVars == <<createVars, authVars, uploadVars, textVars>>
vars == <<chatVars, courseId, sidebarVars, netVars, histVars, labelVars,
          asideVars>>

\* errFrom when err was written by a failed precondition of ask()
PRE == -1

\* the cells of the page and of its uploader once the page has mounted
Mounted ==
    /\ q = <<>>
    /\ courseId \in DefaultCourseIds
    /\ answer = <<>>
    /\ sources = <<>>
    /\ meta = None
    /\ loading = FALSE
    /\ err = None
    /\ userId = DEFAULT_USER_ID
    /\ lockedByAuth = FALSE
    /\ courses = <<>>
    \* the mount effect has called loadCourses()
    /\ loadingCourses = TRUE
    /\ coursesInFlight =
         {[id |-> 1, userId |-> DEFAULT_USER_ID, courseId |-> courseId]}
    /\ nLoad = 1
    /\ askInFlight = {}
    /\ nAsk = 0
    /\ lastAsk = "none"
    /\ lastLoad = "none"
    /\ dataFrom = 0
    /\ errFrom = 0
    /\ selFrom = ""
    \* the label effect has run: it wrote '' for the empty selection, or
    \* awaits the details of a selection that is not in the empty list
    /\ courseLabel = ""
    /\ labelInFlight =
         IF courseId = "" THEN {}
         ELSE {[userId |-> DEFAULT_USER_ID, courseId |-> courseId,
                courses |-> <<>>, cancelled |-> FALSE]}
    /\ labelFor = ""
    /\ labelVia = IF courseId = "" THEN "empty" ELSE "none"
    /\ lastLabel = "none"
    /\ newName = <<>>
    /\ newTerm = ""
    /\ creating = FALSE
    /\ createInFlight = {}
    /\ nCreate = 0
    /\ lastCreate = "none"
    \* the session effect has called getSession()
    /\ sessionLookup = "pending"
    /\ lastAuth = "none"
    /\ open = FALSE
    /\ kind = "pdf"
    /\ file = None
    /\ uploading = FALSE
    /\ uploadMsg = None
    /\ uploadErr = None
    /\ uploadInFlight = {}
    /\ nUpload = 0

\* no text is under the sanitizer
Init ==
    /\ Mounted
    /\ text = <<>>
    /\ withMath = <<>>
    /\ cleaned = <<>>
    /\ textPc = "none"

(***************************************************************************)
(* The label effect, useEffect([API, userId, courseId, courses]).          *)
(*                                                                         *)
(* React runs the cleanup of the previous run, which sets that run's       *)
(* cancelled flag, and then the effect again, after every render in which  *)
(* userId, courseId or the courses array differs from the render before.   *)
(* setCourses(rows) and setCourses([]) store a new array each time.        *)
(***************************************************************************)
\* stands for the separator ' \u2014 ' of the template literal
Dash == " -- "

\* a label that joins the term whatever it is
labelFromCourseJoined(c) ==
    IF c = None THEN ""
    ELSE IF c[1].term # None
         THEN c[1].name \o Dash \o c[1].term[1]
         ELSE c[1].name

\* labelFromCourse(c?), c a nullable Course; an absent, null or empty term
\* is falsy
labelFromCourse(c) ==
    IF c = None THEN ""
    ELSE IF c[1].term # None /\ c[1].term[1] # ""
         THEN c[1].name \o Dash \o c[1].term[1]
         ELSE c[1].name

\* rows.find((c) => c.id === id)
Find(rows, id) ==
    IF HasId(rows, id)
    THEN Some(rows[CHOOSE i \in 1..Len(rows) :
                     /\ rows[i].id = id
                     /\ \A j \in 1..(i - 1) : rows[j].id # id])
    ELSE None

\* an effect without cleanup
CancelNone(runs) == runs

\* the cleanup () => { cancelled = true } of the runs so far
Cancel(runs) == {[r EXCEPT !.cancelled = TRUE] : r \in runs}

\* the cleanup of the previous run and one run of the effect, in a render
\* whose userId is uid, courseId is cid and courses is rows: hydrateLabel()
\* up to its first await
hydrateLabel(uid, cid, rows) ==
    /\ IF cid = ""
       THEN /\ courseLabel' = ""
            /\ labelFor' = ""
            /\ labelVia' = "empty"
            /\ labelInFlight' = Cancel(labelInFlight)
       ELSE IF Find(rows, cid) # None
       THEN /\ courseLabel' = labelFromCourse(Find(rows, cid))
            /\ labelFor' = cid
            /\ labelVia' = "local"
            /\ labelInFlight' = Cancel(labelInFlight)
       ELSE /\ labelInFlight' = Cancel(labelInFlight) \cup
                 {[userId |-> uid, courseId |-> cid, courses |-> rows,
                   cancelled |-> FALSE]}
            /\ UNCHANGED <<courseLabel, labelFor, labelVia>>
    /\ UNCHANGED lastLabel

\* what a handler's state writes do to the label: the effect runs again
\* when they changed one of its dependencies
LabelEffect(changed) ==
    IF changed
    THEN hydrateLabel(userId', courseId', courses')
    ELSE UNCHANGED labelVars

\* a write that ignores the cancelled flag
LabelWriteAlways(r, label, via) ==
    /\ courseLabel' = label
    /\ labelFor' = r.courseId
    /\ labelVia' = via
    /\ lastLabel' = "applied"

\* if (!cancelled) setCourseLabel(label), in the run r of the effect
LabelWrite(r, label, via) ==
    IF r.cancelled
    THEN /\ UNCHANGED <<courseLabel, labelFor, labelVia>>
         /\ lastLabel' = "discarded"
    ELSE /\ courseLabel' = label
         /\ labelFor' = r.courseId
         /\ labelVia' = via
         /\ lastLabel' = "applied"

\* the response to GET /courses/{id} of run r: what the run does with it
LabelResponse(r, label, via) ==
    /\ r \in labelInFlight
    /\ labelInFlight' = labelInFlight \ {r}
    /\ LabelWrite(r, label, via)
    /\ UNCHANGED <<chatVars, courseId, sidebarVars, netVars, histVars,
                   asideVars>>

\* a success status and the course c
LabelOk(r, c) ==
    /\ c.id = r.courseId
    /\ LabelResponse(r, labelFromCourse(Some(c)), "details")

\* status 403
LabelForbidden(r) == LabelResponse(r, "(not your course)", "403")

\* another non-success status, or fetch / res.json() throwing
LabelFail(r) == LabelResponse(r, "(unknown course)", "failed")

(***************************************************************************)
(* loadCourses and the useEffect([userId]) that calls it.                  *)
(***************************************************************************)
\* loadCourses() called in a render whose userId is uid and whose courseId
\* is cid: up to the first await
loadCourses(uid, cid) ==
    IF uid = ""
    THEN UNCHANGED <<loadingCourses, coursesInFlight, nLoad>>
    ELSE /\ nLoad < MaxLoads
         /\ loadingCourses' = TRUE
         /\ coursesInFlight' = coursesInFlight \cup
              {[id |-> nLoad + 1, userId |-> uid, courseId |-> cid]}
         /\ nLoad' = nLoad + 1

\* the user id input's onChange; the changed userId re-runs the effect
SetUserId(v) ==
    /\ ~lockedByAuth
    /\ v # userId
    /\ userId' = v
    /\ loadCourses(v, courseId)
    /\ UNCHANGED <<chatVars, courseId, lockedByAuth, courses, askInFlight,
                   nAsk, histVars, asideVars>>
    /\ LabelEffect(TRUE)

\* the Refresh button
Refresh ==
    /\ ~(loadingCourses \/ userId = "")
    /\ loadCourses(userId, courseId)
    /\ UNCHANGED <<chatVars, courseId, userId, lockedByAuth, courses,
                   askInFlight, nAsk, histVars, labelVars, asideVars>>

\* the selection repair of loadCourses, as the call that issued request r
\* sees it: courseId is the one of that call's render
RepairedSelection(r, rows) ==
    IF ~HasId(rows, r.courseId) /\ Len(rows) > 0 THEN Some(rows[1].id) ELSE None

\* GET /courses answered with a success status and the list rows
LoadCoursesOk(r, rows) ==
    /\ r \in coursesInFlight
    /\ rows \in CourseLists(r.userId)
    /\ coursesInFlight' = coursesInFlight \ {r}
    /\ courses' = rows
    /\ LET sel == RepairedSelection(r, rows)
       IN  IF sel # None
           THEN courseId' = sel[1] /\ selFrom' = r.userId
           ELSE UNCHANGED <<courseId, selFrom>>
    /\ loadingCourses' = FALSE
    /\ lastLoad' = "ok"
    /\ UNCHANGED <<chatVars, userId, lockedByAuth, askInFlight, nAsk, nLoad,
                   lastAsk, dataFrom, errFrom, asideVars>>
    /\ LabelEffect(TRUE)

\* a catch block that reports the failure to the user
LoadCoursesCatchRaises ==
    /\ courses' = <<>>
    /\ loadingCourses' = FALSE
    /\ err' = Some("Failed to load courses")
    /\ UNCHANGED <<q, answer, sources, meta, loading, courseId, userId,
                   lockedByAuth>>

\* the catch and finally blocks of loadCourses
LoadCoursesCatch ==
    /\ courses' = <<>>
    /\ loadingCourses' = FALSE
    /\ UNCHANGED <<chatVars, courseId, userId, lockedByAuth>>

\* GET /courses answered with a non-success status, or fetch / res.json()
\* throwing
LoadCoursesFail(r) ==
    /\ r \in coursesInFlight
    /\ coursesInFlight' = coursesInFlight \ {r}
    /\ LoadCoursesCatch
    /\ lastLoad' = "failed"
    /\ UNCHANGED <<askInFlight, nAsk, nLoad, lastAsk, dataFrom, errFrom,
                   selFrom, asideVars>>
    /\ LabelEffect(TRUE)

\* a click on entry i of the course list
SelectCourse(i) ==
    /\ i \in 1..Len(courses)
    /\ courseId' = courses[i].id
    /\ selFrom' = OwnerOf(courses[i].id)
    /\ UNCHANGED <<chatVars, sidebarVars, netVars, lastAsk, lastLoad,
                   dataFrom, errFrom, asideVars>>
    /\ LabelEffect(courseId' # courseId)

\* the course id input, rendered only while courseId is empty
PasteCourseId(v) ==
    /\ courseId = ""
    /\ courseId' = v
    /\ selFrom' = ""
    /\ UNCHANGED <<chatVars, sidebarVars, netVars, lastAsk, lastLoad,
                   dataFrom, errFrom, asideVars>>
    /\ LabelEffect(courseId' # courseId)

(***************************************************************************)
(* ask.                                                                    *)
(***************************************************************************)
\* the question input's onChange
SetQ(v) ==
    /\ q' = v
    /\ UNCHANGED <<answer, sources, meta, loading, err, courseId, sidebarVars,
                   netVars, histVars, labelVars, asideVars>>

\* the checks with the question tested untrimmed
AskOutcomeNoTrim ==
    IF q = <<>> THEN "blank"
    ELSE IF userId = "" THEN "nouser"
    ELSE IF courseId = "" THEN "nocourse"
    ELSE "sent"

\* the precondition checks that open ask(), in their order
AskOutcome ==
    IF Trim(q) = <<>> THEN "blank"
    ELSE IF userId = "" THEN "nouser"
    ELSE IF courseId = "" THEN "nocourse"
    ELSE "sent"

\* one message for both failures
AskMessageSame(outcome) ==
    CASE outcome = "nouser" -> Some("No user id set")
      [] outcome = "nocourse" -> Some("No user id set")
      [] OTHER -> None

\* what a failed precondition passes to setErr; None when it calls no setErr
AskMessage(outcome) ==
    CASE outcome = "nouser" -> Some("No user id set")
      [] outcome = "nocourse" ->
           Some("No course selected. Create or pick a course on the left.")
      [] OTHER -> None

\* the writes without setErr(null)
AskClearKeepsErr ==
    /\ loading' = TRUE
    /\ answer' = <<>>
    /\ sources' = <<>>
    /\ meta' = None
    /\ UNCHANGED err

\* the state writes of ask() between its preconditions and its fetch
AskClear ==
    /\ loading' = TRUE
    /\ err' = None
    /\ answer' = <<>>
    /\ sources' = <<>>
    /\ meta' = None

\* one call of ask(), up to its first await
ask ==
    LET outcome == AskOutcome
    IN  /\ lastAsk' = outcome
        /\ IF outcome = "sent"
           THEN /\ nAsk < MaxAsks
                /\ AskClear
                /\ askInFlight' = askInFlight \cup {[id |-> nAsk + 1]}
                /\ nAsk' = nAsk + 1
                /\ dataFrom' = 0
                /\ errFrom' = 0
           ELSE /\ IF AskMessage(outcome) # None
                   THEN err' = AskMessage(outcome) /\ errFrom' = PRE
                   ELSE UNCHANGED <<err, errFrom>>
                /\ UNCHANGED <<answer, sources, meta, loading, askInFlight,
                               nAsk, dataFrom>>
        /\ UNCHANGED <<q, courseId, sidebarVars, coursesInFlight, nLoad,
                       lastLoad, selFrom, labelVars, asideVars>>

\* the Ask button, disabled while loading or without identity or course
AskButton ==
    /\ ~(loading \/ userId = "" \/ courseId = "")
    /\ ask

\* the Enter key in the question input
AskEnter == ask

\* data.answer || ''
RawAnswer(data) == IF data.answer = None THEN <<>> ELSE data.answer[1]

\* data.sources_dedup || data.sources || []
ShownSources(data) ==
    OrElse(OrElse(data.sources_dedup, data.sources), Some(<<>>))[1]

\* POST /chat/ask answered with a success status and the body data
AskOk(r, data) ==
    /\ r \in askInFlight
    /\ askInFlight' = askInFlight \ {r}
    /\ answer' = CleanAnswer(RawAnswer(data))
    /\ sources' = ShownSources(data)
    /\ meta' = data.meta
    /\ loading' = FALSE
    /\ dataFrom' = r.id
    /\ UNCHANGED <<q, err, courseId, sidebarVars, coursesInFlight, nAsk, nLoad,
                   lastAsk, lastLoad, errFrom, selFrom, labelVars, asideVars>>

\* the message of the Error thrown for a non-success response
HttpError(status, body) ==
    IF body # "" THEN body ELSE "HTTP " \o ToString(status)

\* the catch and finally blocks of ask, for a thrown error with message msg
AskCatch(r, msg) ==
    /\ r \in askInFlight
    /\ askInFlight' = askInFlight \ {r}
    /\ err' = Some(IF msg # "" THEN msg ELSE "Request failed")
    /\ loading' = FALSE
    /\ errFrom' = r.id
    /\ UNCHANGED <<q, answer, sources, meta, courseId, sidebarVars,
                   coursesInFlight, nAsk, nLoad, lastAsk, lastLoad, dataFrom,
                   selFrom, labelVars, asideVars>>

\* POST /chat/ask answered with a non-success status
AskFail(r, status, body) == AskCatch(r, HttpError(status, body))

\* fetch or res.json() throwing
AskThrow(r, msg) == AskCatch(r, msg)

(***************************************************************************)
(* The session effect.  The Supabase client is configured: without it the  *)
(* effect returns at once and none of its callbacks ever runs.  The page   *)
(* stays mounted.  A click on Sign out changes no state of the page; the   *)
(* client answers it with a notification.                                  *)
(***************************************************************************)
\* setUserId(uid) in a callback of the session effect, and the effects
\* that a changed userId runs again
AdoptIdentity(uid) ==
    /\ userId' = uid
    /\ IF uid # userId
       THEN loadCourses(uid, courseId)
       ELSE UNCHANGED <<loadingCourses, coursesInFlight, nLoad>>
    /\ LabelEffect(uid # userId)

\* a notification without session that leaves the lock as it is
SessionEndKeepsLock ==
    /\ UNCHANGED <<userId, lockedByAuth, loadingCourses, coursesInFlight,
                   nLoad, labelVars>>

\* the else branch of the onAuthStateChange callback
SessionEnd ==
    /\ lockedByAuth' = FALSE
    /\ UNCHANGED <<userId, loadingCourses, coursesInFlight, nLoad,
                   labelVars>>

\* the callback of getSession().then, the lookup giving the session s
GetSessionResolved(s) ==
    /\ sessionLookup = "pending"
    /\ sessionLookup' = "done"
    /\ lastAuth' = "lookup"
    /\ UNCHANGED <<chatVars, courseId, courses, askInFlight, nAsk, histVars,
                   createVars, uploadVars, textVars>>
    /\ IF s # None
       THEN AdoptIdentity(s[1]) /\ lockedByAuth' = TRUE
       ELSE UNCHANGED <<userId, lockedByAuth, loadingCourses,
                        coursesInFlight, nLoad, labelVars>>

\* the callback of onAuthStateChange, the notification carrying the
\* session s
AuthStateChange(s) ==
    /\ lastAuth' = "notified"
    /\ UNCHANGED <<chatVars, courseId, courses, askInFlight, nAsk, histVars,
                   sessionLookup, createVars, uploadVars, textVars>>
    /\ IF s # None
       THEN AdoptIdentity(s[1]) /\ lockedByAuth' = TRUE
       ELSE SessionEnd

(***************************************************************************)
(* createCourse.                                                           *)
(***************************************************************************)
\* the onChange of the name and term inputs
SetNewName(v) ==
    /\ newName' = v
    /\ UNCHANGED <<chatVars, courseId, sidebarVars, netVars, histVars,
                   labelVars, newTerm, creating, createInFlight, nCreate,
                   lastCreate, authVars, uploadVars, textVars>>

SetNewTerm(v) ==
    /\ newTerm' = v
    /\ UNCHANGED <<chatVars, courseId, sidebarVars, netVars, histVars,
                   labelVars, newName, creating, createInFlight, nCreate,
                   lastCreate, authVars, uploadVars, textVars>>

\* a body that carries the name as typed
CreateBodyAsTyped ==
    [name |-> newName, term |-> IF newTerm # "" THEN newTerm ELSE ""]

\* { name: newName.trim(), term: newTerm || '' }
CreateBody ==
    [name |-> Trim(newName), term |-> IF newTerm # "" THEN newTerm ELSE ""]

\* one call of createCourse(), up to its first await; lastCreate is
\* "alert" when the call ended in the alert, "blank" when it returned on
\* the name
createCourse ==
    /\ IF userId = ""
       THEN /\ lastCreate' = "alert"
            /\ UNCHANGED <<creating, createInFlight, nCreate>>
       ELSE IF Trim(newName) = <<>>
       THEN /\ lastCreate' = "blank"
            /\ UNCHANGED <<creating, createInFlight, nCreate>>
       ELSE /\ nCreate < MaxCreates
            /\ creating' = TRUE
            /\ createInFlight' = createInFlight \cup
                 {[id |-> nCreate + 1, userId |-> userId,
                   name |-> CreateBody.name, term |-> CreateBody.term]}
            /\ nCreate' = nCreate + 1
            /\ lastCreate' = "sent"
    /\ UNCHANGED <<chatVars, courseId, sidebarVars, netVars, histVars,
                   labelVars, newName, newTerm, authVars, uploadVars,
                   textVars>>

\* the Create button, disabled without a name, while creating or without
\* identity
CreateButton ==
    /\ ~(Trim(newName) = <<>> \/ creating \/ userId = "")
    /\ createCourse

\* createCourse() called as the function it is, in whatever state the page
\* is in
CreateCall == createCourse

\* a merge that prepends whatever the list holds
MergeCourseAlways(prev, row) == <<row>> \o prev

\* a merge that drops the returned course
MergeCourseDrop(prev, row) == prev

\* the updater passed to setCourses: prepend if new
MergeCourse(prev, row) ==
    IF Find(prev, row.id) # None THEN prev ELSE <<row>> \o prev

\* POST /courses answered with a success status and the course row
CreateOk(r, row) ==
    /\ r \in createInFlight
    /\ row \in CreatedRows(r)
    /\ createInFlight' = createInFlight \ {r}
    /\ courses' = MergeCourse(courses, row)
    /\ courseId' = row.id
    /\ selFrom' = r.userId
    /\ newName' = <<>>
    /\ newTerm' = ""
    /\ creating' = FALSE
    /\ lastCreate' = "created"
    /\ UNCHANGED <<chatVars, userId, lockedByAuth, loadingCourses, netVars,
                   lastAsk, lastLoad, dataFrom, errFrom, nCreate, authVars,
                   uploadVars, textVars>>
    /\ LabelEffect(courseId' # courseId \/ courses' # courses)

\* POST /courses answered with a non-success status, or fetch / res.json()
\* throwing: the alert of the catch block, and the finally block
CreateFail(r) ==
    /\ r \in createInFlight
    /\ createInFlight' = createInFlight \ {r}
    /\ creating' = FALSE
    /\ lastCreate' = "failed"
    /\ UNCHANGED <<chatVars, courseId, sidebarVars, netVars, histVars,
                   labelVars, newName, newTerm, nCreate, authVars,
                   uploadVars, textVars>>

(***************************************************************************)
(* NotesUploader, rendered by the page with its userId and courseId.       *)
(***************************************************************************)
\* String.prototype.toLowerCase on the letters file names are made of
ToLower(ch) ==
    CASE ch = "A" -> "a"
      [] ch = "P" -> "p"
      [] ch = "D" -> "d"
      [] ch = "F" -> "f"
      [] OTHER -> ch

Lower(s) == [i \in 1..Len(s) |-> ToLower(s[i])]

\* s.endsWith(suffix)
EndsWith(s, suffix) ==
    /\ Len(suffix) <= Len(s)
    /\ SubSeq(s, Len(s) - Len(suffix) + 1, Len(s)) = suffix

\* the header button of the uploader
ToggleOpen ==
    /\ open' = ~open
    /\ UNCHANGED <<chatVars, courseId, sidebarVars, netVars, histVars,
                   labelVars, createVars, authVars, kind, file, uploading,
                   uploadMsg, uploadErr, uploadInFlight, nUpload, textVars>>

\* the PDF and Image buttons
SetKind(k) ==
    /\ open
    /\ kind' = k
    /\ file' = None
    /\ uploadErr' = None
    /\ uploadMsg' = None
    /\ UNCHANGED <<chatVars, courseId, sidebarVars, netVars, histVars,
                   labelVars, createVars, authVars, open, uploading,
                   uploadInFlight, nUpload, textVars>>

\* the file input's onChange; f is None when the selection is empty
onPick(f) ==
    /\ open
    /\ uploadMsg' = None
    /\ uploadErr' = None
    /\ file' = f
    /\ UNCHANGED <<chatVars, courseId, sidebarVars, netVars, histVars,
                   labelVars, createVars, authVars, open, kind, uploading,
                   uploadInFlight, nUpload, textVars>>

\* file.type === 'application/pdf' || name.endsWith('.pdf')
IsPdf(f) ==
    \/ f.type = "application/pdf"
    \/ EndsWith(Lower(f.name), <<".", "p", "d", "f">>)

\* the checks with the file tested before the identity and the course
UploadOutcomeFileFirst ==
    IF file = None THEN "nofile"
    ELSE IF userId = "" THEN "nouser"
    ELSE IF courseId = "" THEN "nocourse"
    ELSE IF kind = "pdf" /\ ~IsPdf(file[1]) THEN "notpdf"
    ELSE IF kind = "pdf" /\ file[1].size > MaxPdfBytes THEN "toolarge"
    ELSE "sent"

\* the checks with a size ceiling that excludes the ceiling itself
UploadOutcomeBelowCeiling ==
    IF userId = "" THEN "nouser"
    ELSE IF courseId = "" THEN "nocourse"
    ELSE IF file = None THEN "nofile"
    ELSE IF kind = "pdf" /\ ~IsPdf(file[1]) THEN "notpdf"
    ELSE IF kind = "pdf" /\ file[1].size >= MaxPdfBytes THEN "toolarge"
    ELSE "sent"

\* the precondition checks that open onUpload(), in their order
UploadOutcome ==
    IF userId = "" THEN "nouser"
    ELSE IF courseId = "" THEN "nocourse"
    ELSE IF file = None THEN "nofile"
    ELSE IF kind = "pdf" /\ ~IsPdf(file[1]) THEN "notpdf"
    ELSE IF kind = "pdf" /\ file[1].size > MaxPdfBytes THEN "toolarge"
    ELSE "sent"

\* what a failed check passes to setErr
UploadMessage(outcome) ==
    CASE outcome = "nouser" -> "Set a user id first."
      [] outcome = "nocourse" -> "Pick or create a course first."
      [] outcome = "nofile" -> "Choose a file to upload."
      [] outcome = "notpdf" -> "Please choose a .pdf file."
      [] outcome = "toolarge" -> "PDF too large (>100MB)."

\* one endpoint for both kinds
EndpointPdfAlways(k) == "/upload/pdf"

\* kind === 'pdf' ? '/upload/pdf' : '/upload/image'
Endpoint(k) == IF k = "pdf" THEN "/upload/pdf" ELSE "/upload/image"

\* one call of onUpload(), up to its first await; the request keeps the
\* kind of the render that called it
onUpload ==
    LET outcome == UploadOutcome
    IN  /\ uploadMsg' = None
        /\ IF outcome = "sent"
           THEN /\ nUpload < MaxUploads
                /\ uploadErr' = None
                /\ uploading' = TRUE
                /\ uploadInFlight' = uploadInFlight \cup
                     {[id |-> nUpload + 1, kind |-> kind,
                       endpoint |-> Endpoint(kind)]}
                /\ nUpload' = nUpload + 1
           ELSE /\ uploadErr' = Some(UploadMessage(outcome))
                /\ UNCHANGED <<uploading, uploadInFlight, nUpload>>
        /\ UNCHANGED <<chatVars, courseId, sidebarVars, netVars, histVars,
                       labelVars, createVars, authVars, open, kind, file,
                       textVars>>

\* the Upload button, disabled while uploading or without file, identity
\* or course
UploadButton ==
    /\ open
    /\ ~(uploading \/ file = None \/ userId = "" \/ courseId = "")
    /\ onUpload

\* onUpload() called as the function it is, in whatever state the
\* uploader and its props are in
UploadCall == onUpload

\* the response of request r with a success status; the messages end in
\* a check-mark character, left out here
UploadOk(r) ==
    /\ r \in uploadInFlight
    /\ uploadInFlight' = uploadInFlight \ {r}
    /\ uploadMsg' =
         Some(IF r.kind = "pdf" THEN "PDF ingested" ELSE "Image ingested")
    /\ file' = None
    /\ uploading' = FALSE
    /\ UNCHANGED <<chatVars, courseId, sidebarVars, netVars, histVars,
                   labelVars, createVars, authVars, open, kind, uploadErr,
                   nUpload, textVars>>

\* the catch and finally blocks of onUpload, for a thrown error with
\* message m
UploadCatch(r, m) ==
    /\ r \in uploadInFlight
    /\ uploadInFlight' = uploadInFlight \ {r}
    /\ uploadErr' = Some(IF m # "" THEN m ELSE "Upload failed")
    /\ uploading' = FALSE
    /\ UNCHANGED <<chatVars, courseId, sidebarVars, netVars, histVars,
                   labelVars, createVars, authVars, open, kind, file,
                   uploadMsg, nUpload, textVars>>

\* the response of request r with a non-success status
UploadFail(r, status, body) == UploadCatch(r, HttpError(status, body))

\* fetch or res.text() throwing
UploadThrow(r, m) == UploadCatch(r, m)

(***************************************************************************)
(* The sanitizer of ask(), one answer text at a time.                      *)
(***************************************************************************)
\* the page holds an answer text that the sanitizer has not seen yet
TextInit ==
    /\ Mounted
    /\ courseId = ""
    /\ text \in Texts
    /\ withMath = <<>>
    /\ cleaned = <<>>
    /\ textPc = "given"

\* const withMath = USE_MATH_NORMALIZER ? normalizeMath(raw) : raw
NormalizeText ==
    /\ textPc = "given"
    /\ withMath' = IF USE_MATH_NORMALIZER THEN normalizeMath(text) ELSE text
    /\ textPc' = "withMath"
    /\ UNCHANGED <<chatVars, courseId, sidebarVars, netVars, histVars,
                   labelVars, createVars, authVars, uploadVars, text, cleaned>>

\* const cleaned = sanitizeInlineCitations(withMath)
SanitizeText ==
    /\ textPc = "withMath"
    /\ cleaned' = sanitizeInlineCitations(withMath)
    /\ textPc' = "cleaned"
    /\ UNCHANGED <<chatVars, courseId, sidebarVars, netVars, histVars,
                   labelVars, createVars, authVars, uploadVars, text,
                   withMath>>

TextNext == NormalizeText \/ SanitizeText

SpecText == TextInit /\ [][TextNext]_vars

\* the two functions called as the functions they are, with a string or
\* with undefined
TextInitAny ==
    /\ Mounted
    /\ courseId = ""
    /\ text \in Texts \cup {Undefined}
    /\ withMath = <<>>
    /\ cleaned = <<>>
    /\ textPc = "given"

SpecTextAny == TextInitAny /\ [][TextNext]_vars

(***************************************************************************)
(* The page, and its two flows.                                            *)
(*                                                                         *)
(* The sidebar's handlers read and write only the sidebar's state, the     *)
(* selection and the course-list requests; ask() reads of that only        *)
(* whether userId and courseId are empty.  Spec is the whole page.         *)
(* SpecChat is the chat flow with the two inputs that can empty or fill    *)
(* what ask() reads, the course-list requests staying in flight.           *)
(* SpecCourses is the sidebar flow with calls of ask() whose requests stay *)
(* in flight, so that the chat's error state varies under it.              *)
(***************************************************************************)
SidebarNext ==
    \/ \E v \in UserIdInputs : SetUserId(v)
    \/ Refresh
    \/ \E r \in coursesInFlight : \E rows \in CourseLists(r.userId) :
         LoadCoursesOk(r, rows)
    \/ \E r \in coursesInFlight : LoadCoursesFail(r)
    \/ \E i \in 1..Len(courses) : SelectCourse(i)
    \/ \E v \in PasteIds : PasteCourseId(v)

AskCallNext ==
    \/ \E v \in Questions : SetQ(v)
    \/ AskButton
    \/ AskEnter

AskResponseNext ==
    \/ \E r \in askInFlight : \E data \in AskPayloads : AskOk(r, data)
    \/ \E r \in askInFlight : \E st \in FailStatuses : \E body \in FailBodies :
         AskFail(r, st, body)
    \/ \E r \in askInFlight : \E msg \in ThrowMessages : AskThrow(r, msg)

Next == SidebarNext \/ AskCallNext \/ AskResponseNext

Spec == Init /\ [][Next]_vars

ChatNext ==
    \/ \E v \in UserIdInputs : SetUserId(v)
    \/ \E v \in PasteIds : PasteCourseId(v)
    \/ AskCallNext
    \/ AskResponseNext

SpecChat == Init /\ [][ChatNext]_vars

CoursesNext == SidebarNext \/ AskCallNext

SpecCourses == Init /\ [][CoursesNext]_vars

\* the sidebar flow with the responses to the details requests of the
\* label effect
LabelNext ==
    \/ SidebarNext
    \/ \E r \in labelInFlight : \E c \in AllCourses : LabelOk(r, c)
    \/ \E r \in labelInFlight : LabelForbidden(r)
    \/ \E r \in labelInFlight : LabelFail(r)

SpecLabel == Init /\ [][LabelNext]_vars

CreateFormNext ==
    \/ \E v \in NewNames : SetNewName(v)
    \/ \E v \in NewTerms : SetNewTerm(v)
    \/ CreateButton

CreateResponseNext ==
    \/ \E r \in createInFlight : \E row \in CreatedRows(r) : CreateOk(r, row)
    \/ \E r \in createInFlight : CreateFail(r)

\* the create form beside the course list of one identity: the response
\* to the mount's course-list request and selections can come between a
\* click on Create and its response
CreateNext ==
    \/ \E r \in coursesInFlight : \E rows \in CourseLists(r.userId) :
         LoadCoursesOk(r, rows)
    \/ \E i \in 1..Len(courses) : SelectCourse(i)
    \/ CreateFormNext
    \/ CreateResponseNext

SpecCreate == Init /\ [][CreateNext]_vars

\* the sidebar flow with the callbacks of the session effect
SessionNext ==
    \/ SidebarNext
    \/ \E s \in Sessions : GetSessionResolved(s)
    \/ \E s \in Sessions : AuthStateChange(s)

SpecSession == Init /\ [][SessionNext]_vars

\* the uploader with the two inputs of the page that can empty or fill its
\* props
UploaderNext ==
    \/ \E v \in UserIdInputs : SetUserId(v)
    \/ \E v \in PasteIds : PasteCourseId(v)
    \/ ToggleOpen
    \/ \E k \in {"pdf", "image"} : SetKind(k)
    \/ \E f \in {None} \cup {Some(x) : x \in Files} : onPick(f)

UploadResponseNext ==
    \/ \E r \in uploadInFlight : UploadOk(r)
    \/ \E r \in uploadInFlight : \E st \in FailStatuses :
         \E body \in FailBodies : UploadFail(r, st, body)
    \/ \E r \in uploadInFlight : \E m \in ThrowMessages : UploadThrow(r, m)

UploadNext == UploaderNext \/ UploadButton \/ UploadResponseNext

SpecUpload == Init /\ [][UploadNext]_vars

\* onUpload() as a function: called in every state the uploader and its
\* props can be in, the button's disabled attribute set aside
UploadCallNext == UploaderNext \/ UploadCall \/ UploadResponseNext

SpecUploadCall == Init /\ [][UploadCallNext]_vars

\* createCourse() as a function: called in every state the form and the
\* identity can be in, the button's disabled attribute set aside
CreateCallNext ==
    \/ \E v \in UserIdInputs : SetUserId(v)
    \/ CreateFormNext
    \/ CreateCall
    \/ \E r \in createInFlight : CreateFail(r)

SpecCreateCall == Init /\ [][CreateCallNext]_vars

\* the create form while the identity is typed: the identity can change
\* between a click on Create and its response
CreateIdentityNext ==
    \/ \E v \in UserIdInputs : SetUserId(v)
    \/ CreateFormNext
    \/ CreateResponseNext

SpecCreateIdentity == Init /\ [][CreateIdentityNext]_vars

(***************************************************************************)
(* Properties of the chat flow.                                            *)
(***************************************************************************)
\* an ask whose response has been applied
Answered(n) == n \in 1..MaxAsks

\* C1: no state shows a non-empty answer written by one ask together with
\* an error written by the failure of another ask.
C1_NoMixedDisplay ==
    ~(/\ answer # <<>>
      /\ err # None
      /\ Answered(dataFrom)
      /\ Answered(errFrom)
      /\ dataFrom # errFrom)

\* C2: at every moment at most one /chat/ask request is in flight.
C2_AtMostOneAskInFlight == Cardinality(askInFlight) <= 1

\* C3: latest wins: once every started ask has completed, whatever a
\* response wrote to the display was written by the latest ask started.
C3_LatestWins ==
    (askInFlight = {} /\ nAsk >= 1) =>
        /\ dataFrom \in {0, nAsk}
        /\ errFrom \in {0, nAsk, PRE}

\* C4: a call of ask() that issues a request leaves, in the state in which
\* the request is in flight, the answer empty, the sources empty, the
\* metadata null, the error null and loading true.
C4_AskClearsBeforeRequest ==
    [][nAsk' # nAsk =>
         /\ askInFlight' = askInFlight \cup {[id |-> nAsk']}
         /\ answer' = <<>>
         /\ sources' = <<>>
         /\ meta' = None
         /\ err' = None
         /\ loading' = TRUE]_vars

\* C4 witness: the second ask has started after the first one's response
\* was displayed, and the display is cleared.
C4_Witness ==
    /\ nAsk = 2
    /\ askInFlight = {[id |-> 2]}
    /\ lastAsk = "sent"
    /\ dataFrom = 0
    /\ errFrom = 0
    /\ answer = <<>>
    /\ err = None
    /\ loading

\* C5: a step issues a /chat/ask request only when the question is
\* non-empty after trimming, the identity is non-empty and the course id
\* is non-empty; with any of the three empty, no step issues one.
C5_RequestOnlyWhenAllPresent ==
    [][askInFlight' \ askInFlight # {} =>
         /\ Trim(q) # <<>>
         /\ userId # ""
         /\ courseId # ""]_vars

\* C5 witness: ask() was called with a question and a course but no
\* identity, and nothing was sent.
C5_Witness ==
    /\ lastAsk = "nouser"
    /\ Trim(q) # <<>>
    /\ courseId # ""
    /\ userId = ""
    /\ nAsk = 0
    /\ askInFlight = {}

C7_FailureShowsOnlyError ==
    [][\A r \in askInFlight : \A st \in FailStatuses : \A body \in FailBodies :
         AskFail(r, st, body) =>
           /\ err' = Some(IF body # "" THEN body ELSE "HTTP " \o ToString(st))
           /\ answer' = <<>>
           /\ sources' = <<>>
           /\ meta' = None]_vars

(***************************************************************************)
(* Properties of the sidebar flow.                                         *)
(***************************************************************************)
\* C8: when a course-list response is applied and the list does not hold
\* the selection current at that moment, the selection becomes the list's
\* first element if the list is non-empty and is unchanged if it is empty.
C8_RepairUsesCurrentSelection ==
    [][\A r \in coursesInFlight : \A rows \in CourseLists(r.userId) :
         (LoadCoursesOk(r, rows) /\ ~HasId(rows, courseId)) =>
           courseId' = (IF Len(rows) > 0 THEN rows[1].id ELSE courseId)]_vars

\* C9: a failed course-list request empties courses and leaves the
\* selected course id and the chat's error as they were.
C9_LoadFailureFailsSoft ==
    [][\A r \in coursesInFlight :
         LoadCoursesFail(r) =>
           /\ courses' = <<>>
           /\ courseId' = courseId
           /\ err' = err]_vars

\* C9 witness: a course-list request has failed while a course was
\* selected and an error was shown: the list is empty, both are kept.
C9_Witness ==
    /\ lastLoad = "failed"
    /\ coursesInFlight = {}
    /\ courses = <<>>
    /\ ~loadingCourses
    /\ selFrom = "u1"
    /\ courseId = "c2"
    /\ err = Some("No user id set")

\* C10: once no course-list request is in flight, courses holds no course
\* of an identity other than the current one, and the selection is not one
\* taken from another identity's list.
C10_IdentityChangeInvalidates ==
    coursesInFlight = {} =>
        /\ \A i \in 1..Len(courses) : OwnerOf(courses[i].id) = userId
        /\ selFrom \in {"", userId}

(***************************************************************************)
(* Properties of the course label.                                         *)
(***************************************************************************)
\* the run r of the label effect was started for another identity,
\* selection or course list than the current ones
Superseded(r) ==
    <<r.userId, r.courseId, r.courses>> # <<userId, courseId, courses>>

\* C11: the response to the details request of a label resolution that was
\* started for an identity, selection or course list that has changed since
\* leaves courseLabel as it is.
C11_StaleLabelDiscarded ==
    [][\A r \in labelInFlight :
         (/\ Superseded(r)
          /\ \/ \E c \in AllCourses : LabelOk(r, c)
             \/ LabelForbidden(r)
             \/ LabelFail(r))
         => courseLabel' = courseLabel]_vars

\* the response to a superseded resolution has arrived and a later
\* resolution has written the label
C11_Witness ==
    /\ lastLabel = "discarded"
    /\ labelVia = "details"
    /\ labelInFlight = {}

\* the label the page is to show for each course of the backend
ExpectedLabel(id) ==
    CASE id = "c1" -> "Algo -- Fall"
      [] id = "c2" -> "Logic"
      [] id = "c3" -> "Nets"

\* the runs of the label effect that await their response and are not
\* cancelled
LiveRuns == {r \in labelInFlight : ~r.cancelled}

\* C12: the empty selection shows the empty label; a selection in the
\* local list shows "name -- term", or "name" without a term, and has no
\* details request; any other selection has a details request awaited or
\* answered, and the answer writes "(not your course)" for a 403, "(unknown
\* course)" for another failure and the formatted label for a success.
C12_LabelPriority ==
    /\ [](/\ courseId = "" => courseLabel = "" /\ LiveRuns = {}
          /\ courseId # "" /\ HasId(courses, courseId) =>
                courseLabel = ExpectedLabel(courseId) /\ LiveRuns = {}
          /\ courseId # "" /\ ~HasId(courses, courseId) =>
                \/ LiveRuns = {[userId |-> userId, courseId |-> courseId,
                                courses |-> courses, cancelled |-> FALSE]}
                \/ /\ LiveRuns = {}
                   /\ labelFor = courseId
                   /\ labelVia \in {"details", "403", "failed"})
    /\ [][\A r \in LiveRuns :
            /\ LabelForbidden(r) => courseLabel' = "(not your course)"
            /\ LabelFail(r) => courseLabel' = "(unknown course)"
            /\ \A c \in AllCourses :
                 LabelOk(r, c) => courseLabel' = ExpectedLabel(r.courseId)]_vars

\* each of the five outcomes has been the latest to write the label
C12_Witness ==
    /\ labelVia = "403"
    /\ courseLabel = "(not your course)"
    /\ courseId = "c3"
    /\ userId = "u1"

(***************************************************************************)
(* Properties of createCourse.                                             *)
(***************************************************************************)
\* name is typed with the white space around it removed
IsTrimOf(name, typed) ==
    /\ name # <<>>
    /\ name[1] \notin WhiteSpace
    /\ name[Len(name)] \notin WhiteSpace
    /\ \E i \in 1..Len(typed) : \E j \in i..Len(typed) :
         /\ SubSeq(typed, i, j) = name
         /\ \A k \in (1..(i - 1)) \cup ((j + 1)..Len(typed)) :
              typed[k] \in WhiteSpace

\* the typed name holds nothing but white space
IsBlank(typed) == \A k \in 1..Len(typed) : typed[k] \in WhiteSpace

\* C13: a call of createCourse with an empty identity or a blank name
\* issues no request, and with an empty identity it ends in the alert; a
\* call with an identity, a name and an empty term issues one request,
\* whose name is the typed name trimmed and whose term is the empty string.
C13_CreatePreconditions ==
    [][createCourse =>
         /\ (userId = "" \/ IsBlank(newName)) =>
               createInFlight' = createInFlight
         /\ userId = "" => lastCreate' = "alert"
         /\ (userId # "" /\ ~IsBlank(newName) /\ newTerm = "") =>
               \E r \in createInFlight' \ createInFlight :
                 /\ createInFlight' = createInFlight \cup {r}
                 /\ r.term = ""
                 /\ IsTrimOf(r.name, newName)
                 /\ r.userId = userId]_vars

\* a call without identity has ended in the alert, after a call with a
\* padded name and an empty term has issued its request
C13_Witness ==
    /\ lastCreate = "alert"
    /\ userId = ""
    /\ newName = <<" ", "A", " ">>
    /\ \E r \in createInFlight : r.name = <<"A">> /\ r.term = ""

\* no two entries of the list have the same id
DistinctIds(rows) ==
    \A i, j \in 1..Len(rows) : rows[i].id = rows[j].id => i = j

\* C14: a createCourse success leaves the list as it is when it holds the
\* returned id and puts the returned course at its head otherwise, so that
\* no id is ever listed twice; it selects the returned id and empties both
\* form fields.  A createCourse failure changes none of the list, the
\* selection and the form fields.
C14_CreateMergesAndSelects ==
    /\ [](DistinctIds(courses))
    /\ [][\A r \in createInFlight :
            /\ \A row \in CreatedRows(r) :
                 CreateOk(r, row) =>
                   /\ HasId(courses, row.id) => courses' = courses
                   /\ ~HasId(courses, row.id) =>
                         /\ Len(courses') = Len(courses) + 1
                         /\ Head(courses') = row
                         /\ Tail(courses') = courses
                   /\ courseId' = row.id
                   /\ newName' = <<>>
                   /\ newTerm' = ""
            /\ CreateFail(r) =>
                 UNCHANGED <<courses, courseId, newName, newTerm>>]_vars

\* a created course has been put before the course the list held and
\* selected, and the form is empty
C14_Witness ==
    /\ lastCreate = "created"
    /\ Len(courses) = 2
    /\ courses[1].id = "c4"
    /\ courses[2].id = "c1"
    /\ courseId = "c4"
    /\ newName = <<>>
    /\ newTerm = ""

(***************************************************************************)
(* Properties of the session effect.                                       *)
(***************************************************************************)
\* C15: a session lookup or a notification that carries a session makes
\* its user id the identity and sets lockedByAuth; a notification without
\* session clears lockedByAuth, which is what shows the user id input;
\* while lockedByAuth is set no step is a manual entry of the identity.
C15_SessionLocksIdentity ==
    [][/\ \A s \in Sessions \ {None} :
            (GetSessionResolved(s) \/ AuthStateChange(s)) =>
              userId' = s[1] /\ lockedByAuth'
       /\ AuthStateChange(None) => ~lockedByAuth'
       /\ lockedByAuth => \A v \in UserIdInputs : ~SetUserId(v)]_vars

\* after a session locked the identity and a notification without session
\* unlocked it, the identity has been typed again
C15_Witness ==
    /\ lastAuth = "notified"
    /\ ~lockedByAuth
    /\ sessionLookup = "done"
    /\ userId = ""

(***************************************************************************)
(* Properties of the uploader.                                             *)
(***************************************************************************)
\* the name ends in .pdf, in whatever case
HasPdfExtension(name) ==
    /\ Len(name) >= 4
    /\ name[Len(name) - 3] = "."
    /\ name[Len(name) - 2] \in {"p", "P"}
    /\ name[Len(name) - 1] \in {"d", "D"}
    /\ name[Len(name)] \in {"f", "F"}

\* C16: a call of onUpload sets the message of the first check that fails,
\* in the order identity, course id, file and, for kind pdf, file type
\* (neither the declared type application/pdf nor a name ending in .pdf)
\* and size; the five messages differ and a failed check sends no request;
\* notes.txt with declared type text/plain under kind pdf gets the
\* file-type message.
C16_UploadPreconditionOrder ==
    [][onUpload =>
         LET present == userId # "" /\ courseId # "" /\ file # None
             typed == present /\ kind = "pdf" /\
                      (file[1].type = "application/pdf" \/
                       HasPdfExtension(file[1].name))
         IN  /\ userId = "" => uploadErr' = Some("Set a user id first.")
             /\ userId # "" /\ courseId = "" =>
                   uploadErr' = Some("Pick or create a course first.")
             /\ userId # "" /\ courseId # "" /\ file = None =>
                   uploadErr' = Some("Choose a file to upload.")
             /\ present /\ kind = "pdf" /\ ~typed =>
                   uploadErr' = Some("Please choose a .pdf file.")
             /\ typed /\ file[1].size > 104857600 =>
                   uploadErr' = Some("PDF too large (>100MB).")
             /\ uploadErr' # None => uploadInFlight' = uploadInFlight
             /\ uploadErr' = None => uploadInFlight' # uploadInFlight
             /\ (/\ present
                 /\ kind = "pdf"
                 /\ file[1].name = NotesTxt
                 /\ file[1].type = "text/plain") =>
                   /\ uploadErr' = Some("Please choose a .pdf file.")
                   /\ uploadInFlight' = uploadInFlight]_vars

\* notes.txt has been rejected for its type, nothing sent
C16_Witness ==
    /\ file # None
    /\ file[1].name = NotesTxt
    /\ file[1].size > MaxPdfBytes
    /\ uploadErr = Some("Please choose a .pdf file.")
    /\ nUpload = 0

(***************************************************************************)
(* Properties of the sanitizer.                                            *)
(***************************************************************************)
\* every \[ and \] of s replaced by $$ and every \( and \) by $, in one
\* pass from the left
RECURSIVE Remarked(_)
Remarked(s) ==
    IF Len(s) < 2 THEN s
    ELSE IF s[1] = BS /\ s[2] \in {"[", "]"}
         THEN <<"$", "$">> \o Remarked(SubSeq(s, 3, Len(s)))
    ELSE IF s[1] = BS /\ s[2] \in {"(", ")"}
         THEN <<"$">> \o Remarked(SubSeq(s, 3, Len(s)))
    ELSE <<s[1]>> \o Remarked(Tail(s))

\* C17: the text normalizeMath returns is the given text with every \[ and
\* \] replaced by the two characters $$ and every \( and \) by $, all
\* other characters as they were.
C17_DisplayMarkersBecomeDoubleDollar ==
    textPc \in {"withMath", "cleaned"} => withMath = Remarked(text)

\* s holds one of the four two-character markers
HasMarker(s) ==
    \E i \in 1..(Len(s) - 1) :
      s[i] = BS /\ s[i + 1] \in {"[", "]", "(", ")"}

\* C18 as stated: a text without any of \[ \] \( \) leaves the pipeline of
\* ask() as it entered it.
C18_NoMarkerNoChange ==
    (textPc = "cleaned" /\ ~HasMarker(text)) => cleaned = text

\* s[j..e] reads [digits](url): digits not empty, url not empty and without
\* a closing parenthesis
IsLink(s, j, e) ==
    /\ s[j] = "["
    /\ s[e] = ")"
    /\ \E d \in (j + 2)..(e - 3) :
         /\ \A m \in (j + 1)..(d - 1) : s[m] \in Digits
         /\ s[d] = "]"
         /\ s[d + 1] = "("
         /\ \A m \in (d + 2)..(e - 1) : s[m] # ")"

\* s[j..e] lies inside a \text{...} span: after a \text{ with no closing
\* brace up to e, and before a closing brace
InSpan(s, j, e) ==
    /\ \E i \in 1..(j - 6) :
         /\ SubSeq(s, i, i + 5) = TextOpen
         /\ \A m \in (i + 6)..e : s[m] # "}"
    /\ \E k \in (e + 1)..Len(s) : s[k] = "}"

\* the [digits](url) occurrences of s inside spans
SpanLinks(s) ==
    {p \in (1..Len(s)) \X (1..Len(s)) :
       p[1] < p[2] /\ IsLink(s, p[1], p[2]) /\ InSpan(s, p[1], p[2])}

\* C18 amended: a text without any of \[ \] \( \) leaves normalizeMath as
\* it entered it, and leaves the pipeline as it entered it when no
\* \text{...} span of it holds a [digits](url) link; when one does, the
\* pipeline shortens the text.
C18_NoMarkerNoLinkNoChange ==
    ~HasMarker(text) =>
      /\ textPc \in {"withMath", "cleaned"} => withMath = text
      /\ textPc = "cleaned" =>
           IF SpanLinks(text) = {} THEN cleaned = text
           ELSE Len(cleaned) < Len(text)

\* a text without markers has passed the pipeline unchanged although it
\* holds a link, the link being outside the span
C18_Witness ==
    /\ textPc = "cleaned"
    /\ text = TextOpen \o <<"}", "[", "3", "]", "(", "u", ")">>
    /\ cleaned = text

\* C19: the text normalizeMath returns holds none of \[ \] \( \), whatever
\* text it was given.
C19_NoMarkerLeft ==
    textPc \in {"withMath", "cleaned"} => ~HasMarker(withMath)

\* markers that follow a backslash have been replaced and the backslash
\* has not made a marker with what follows it
C19_Witness ==
    /\ textPc = "withMath"
    /\ text = <<BS, BS, "[", BS, "(", "(", "u", ")">>
    /\ withMath = <<BS, "$", "$", "(", "u", ")">>

\* the links of s that sanitizeInlineCitations rewrites: of the links
\* inside spans that end at the same closing parenthesis, the one that
\* starts first, the others being part of its url
Rewritten(s) ==
    {p \in SpanLinks(s) :
       \A o \in SpanLinks(s) : o[2] = p[2] => o[1] >= p[1]}

\* the positions of s that hold the (url) of a rewritten link
UrlPositions(s) ==
    {m \in 1..Len(s) :
       \E p \in Rewritten(s) :
         /\ m <= p[2]
         /\ \E d \in p[1]..(m - 1) :
              s[d] = "]" /\ \A n \in (p[1] + 1)..(d - 1) : s[n] \in Digits}

\* s without the characters at the positions in D
RECURSIVE Without(_, _, _)
Without(s, D, i) ==
    IF i > Len(s) THEN <<>>
    ELSE (IF i \in D THEN <<>> ELSE <<s[i]>>) \o Without(s, D, i + 1)

\* C20: the text sanitizeInlineCitations returns is the given text
\* without the (url) of every [digits](url) that lies inside a \text{...}
\* span, a span running from \text{ to the first closing brace after it;
\* a link outside the spans and every other character stay.
C20_OnlySpanLinksRewritten ==
    textPc = "cleaned" =>
      cleaned = Without(withMath, UrlPositions(withMath), 1)

\* the two links inside a span have both lost their urls
C20_Witness ==
    /\ textPc = "cleaned"
    /\ text = TextOpen \o <<"[", "3", "]", "(", "u", ")", "[", "3", "]",
                             "(", "u", ")", "}">>
    /\ cleaned = TextOpen \o <<"[", "3", "]", "[", "3", "]", "}">>

\* no \text{ of s has a closing brace after it
NoClosedSpan(s) ==
    \A i \in 1..(Len(s) - 5) :
      SubSeq(s, i, i + 5) = TextOpen => \A k \in (i + 6)..Len(s) : s[k] # "}"

\* s has a \text{ and none of them is closed
Unbalanced(s) ==
    /\ \E i \in 1..(Len(s) - 5) : SubSeq(s, i, i + 5) = TextOpen
    /\ NoClosedSpan(s)

\* C21 as stated: the pipeline returns the empty string and undefined as
\* they are, and a text whose \text{ is never closed as it is.
C21_EdgeInputsReturnedAsGiven ==
    textPc = "cleaned" =>
      /\ text \in {<<>>, Undefined} => cleaned = text
      /\ Unbalanced(text) => cleaned = text

\* C21 amended: normalizeMath returns the empty string and undefined as
\* they are, sanitizeInlineCitations and so the pipeline return the empty
\* string for both; for a string whose \text{ is never closed
\* sanitizeInlineCitations returns what it was given, so the pipeline
\* returns what normalizeMath made of it, the string itself when it holds
\* no legacy delimiter.
C21_EdgeInputs ==
    /\ (textPc \in {"withMath", "cleaned"} /\ text \in {<<>>, Undefined}) =>
          withMath = text
    /\ (textPc = "cleaned" /\ text \in {<<>>, Undefined}) => cleaned = <<>>
    /\ (textPc = "cleaned" /\ text # Undefined /\ Unbalanced(text)) =>
          /\ cleaned = withMath
          /\ ~HasMarker(text) => cleaned = text

\* undefined has passed normalizeMath as it is and has left the pipeline
\* as the empty string
C21_Witness ==
    /\ textPc = "cleaned"
    /\ text = Undefined
    /\ withMath = Undefined
    /\ cleaned = <<>>

(***************************************************************************)
(* Properties of an upload in flight.                                      *)
(***************************************************************************)
\* C22: a call of onUpload that sends a request sends it to /upload/pdf
\* for kind pdf and to /upload/image for kind image; a success response
\* sets the confirmation of the kind the request was sent for and empties
\* the chosen file; a non-success response sets the error to its body, or
\* to "HTTP <status>" for an empty body, and keeps the chosen file.
C22_UploadRouting ==
    [][/\ (onUpload /\ uploadInFlight' # uploadInFlight) =>
            \E r \in uploadInFlight' \ uploadInFlight :
              /\ uploadInFlight' = uploadInFlight \cup {r}
              /\ r.kind = kind
              /\ kind = "pdf" => r.endpoint = "/upload/pdf"
              /\ kind = "image" => r.endpoint = "/upload/image"
       /\ \A r \in uploadInFlight :
            /\ UploadOk(r) =>
                 /\ r.kind = "pdf" => uploadMsg' = Some("PDF ingested")
                 /\ r.kind = "image" => uploadMsg' = Some("Image ingested")
                 /\ file' = None
            /\ \A st \in FailStatuses : \A body \in FailBodies :
                 UploadFail(r, st, body) =>
                   /\ uploadErr' =
                        Some(IF body # "" THEN body
                             ELSE "HTTP " \o ToString(st))
                   /\ file' = file]_vars

\* an image has been sent and has failed with an empty body: the status
\* is shown and the file is still chosen
C22_Witness ==
    /\ nUpload = 1
    /\ uploadInFlight = {}
    /\ kind = "image"
    /\ uploadErr = Some("HTTP 500")
    /\ file # None
    /\ ~uploading

(***************************************************************************)
(* Properties of responses that cross a change of selection or identity.   *)
(***************************************************************************)
\* C23: a course-list response whose list holds the selection current at
\* the moment it is applied leaves the selection as it is, whatever the
\* selection was when the request was issued.
C23_PresentSelectionKept ==
    [][\A r \in coursesInFlight : \A rows \in CourseLists(r.userId) :
         (LoadCoursesOk(r, rows) /\ HasId(rows, courseId)) =>
           courseId' = courseId]_vars

\* C24: a createCourse success whose request was issued under an identity
\* that is no longer the current one still puts the returned course into
\* courses and selects it.
C24_StaleCreateStillApplied ==
    [][\A r \in createInFlight : \A row \in CreatedRows(r) :
         (CreateOk(r, row) /\ r.userId # userId) =>
           /\ HasId(courses', row.id)
           /\ ~HasId(courses, row.id) => courses' = <<row>> \o courses
           /\ courseId' = row.id
           /\ userId' = userId]_vars

\* identity u2 has the course that was created for u1 in its list and
\* selected
C24_Witness ==
    /\ lastCreate = "created"
    /\ userId = "u2"
    /\ courseId = "c4"
    /\ HasId(courses, "c4")
    /\ OwnerOf("c4") = "u1"

\* C25: with identity, course and file present, a call of onUpload for
\* kind pdf sends a PDF file of at most 104857600 bytes, that size
\* included, and rejects a larger one with the too-large message; for kind
\* image it sends whatever file is chosen, its type and size untested.
C25_SizeCeiling ==
    [][(onUpload /\ userId # "" /\ courseId # "" /\ file # None) =>
         LET f == file[1]
             pdfFile == f.type = "application/pdf" \/ HasPdfExtension(f.name)
             sent == /\ uploadErr' = None
                     /\ Cardinality(uploadInFlight') =
                          Cardinality(uploadInFlight) + 1
         IN  /\ (kind = "pdf" /\ pdfFile /\ f.size <= 104857600) => sent
             /\ (kind = "pdf" /\ pdfFile /\ f.size > 104857600) =>
                   /\ uploadErr' = Some("PDF too large (>100MB).")
                   /\ uploadInFlight' = uploadInFlight
             /\ kind = "image" => sent]_vars

\* a PDF file of exactly the ceiling has been sent
C25_Witness ==
    /\ kind = "pdf"
    /\ file # None
    /\ file[1].type = "application/pdf"
    /\ file[1].size = 104857600
    /\ uploadInFlight = {[id |-> 1, kind |-> "pdf",
                          endpoint |-> "/upload/pdf"]}
    /\ uploadErr = None
    /\ uploading

\* C26: with a non-empty identity and no course-list request in flight,
\* courses is what the request issued for that identity gave: a list the
\* backend returns for that identity, or the empty list.
C26_CoursesOfCurrentIdentity ==
    (userId # "" /\ coursesInFlight = {}) => courses \in CourseLists(userId)

\* C27: loading is true in every state in which an ask request is in
\* flight, and false in every state in which none is.
C27_LoadingTracksAsk ==
    /\ askInFlight # {} => loading
    /\ askInFlight = {} => ~loading

\* C28: whenever a course is selected and a label is shown, the label was
\* written for the selected course id.
C28_LabelOfCurrentSelection ==
    (courseId # "" /\ courseLabel # "") => labelFor = courseId

\* a label is shown for the selected course while the details request
\* for that course is awaited
C28_Witness ==
    /\ courseId = "c1"
    /\ courseLabel = "Algo -- Fall"
    /\ labelFor = "c1"
    /\ courses = <<>>
    /\ \E r \in LiveRuns : r.courseId = "c1"

\* C29: after a notification without session, lockedByAuth stays false
\* until a notification carries a session, and a result of the getSession
\* lookup that arrives in between neither sets it nor replaces the
\* identity.  (When the latest session information processed is a
\* notification and lockedByAuth is false, that notification carried no
\* session.)
C29_LatestSessionWins ==
    [][(lastAuth = "notified" /\ ~lockedByAuth) =>
         /\ lockedByAuth' =>
               \E s \in Sessions \ {None} : AuthStateChange(s)
         /\ \A s \in Sessions :
               GetSessionResolved(s) => userId' = userId]_vars

\* C30: the text the pipeline of ask() returns passes the pipeline again
\* unchanged.
C30_PipelineIdempotent ==
    textPc = "cleaned" => CleanAnswer(cleaned) = cleaned

====
